---- MODULE Spec2Model ----
(***************************************************************************)
(* State-machine model of the transaction-building hooks of the JitoSOL    *)
(* stake / unstake reference application.  The hooks share no state, so a  *)
(* behaviour follows one hook (any of them) through successive calls of    *)
(* its operation.  Every await of the source is one step of the model, and *)
(* the results of the external collaborators (ledger RPC, ranked-validator *)
(* HTTP endpoint, wallet) are chosen nondeterministically at that step.    *)
(***************************************************************************)
EXTENDS Integers, Sequences, FiniteSets, TLC

\* ----------------------------------------------------------------- bounds
MaxValidators == 2      \* longest validator list returned by the ledger
MaxCandidates == 2      \* longest candidate list returned by the endpoint
MaxAmount == 4          \* largest input amount, in units of 1/AmountGrid lamport
AmountGrid == 2         \* input amounts are multiples of 1/(AmountGrid*LAMPORTS_PER_SOL) SOL
MaxBalance == 2         \* largest pool-token balance of the wallet
MaxWithdrawable == 2    \* largest withdrawable_lamports figure of a candidate
Headroom == 3           \* lamports a funded stake account holds above a reserve
MaxLibIx == 2           \* most instructions a library builder returns
MaxLibSigners == 1      \* most signers a library builder returns
MaxBlockhash == 2       \* distinct blockhashes the ledger hands out
EncWindow == 8          \* amounts tried on each side of 0, 2^63 and 2^64
MaxByte == 2            \* largest byte value in a stake-account buffer

\* ------------------------------------------------------ program constants
minimumRequiredLamports_Mainnet == 3282880
minimumRequiredLamports_Testnet == 1002282880
createStake_minimumRequiredLamports == 3282880

Networks == {"mainnet", "testnet"}

\* The operations of the hooks.
Ops ==
  { "depositSol", "createActiveStakeAccount", "createStakeAccount",
    "manualUnstake", "preferredUnstake", "manualStakeDeposit",
    "assistedStakeDeposit", "assistedStake", "assistedUnstake",
    "createAndDepositStake" }

\* Operations that run the local scan of the validator list.
ScanOps == {"manualUnstake", "createActiveStakeAccount"}

\* Operations that return the created stake-account address instead of true.
KeyOps == {"createActiveStakeAccount", "createStakeAccount"}

VARIABLES
  network,        \* NetworkProvider state: the selected network
  apiUrl,         \* TRUE iff NEXT_PUBLIC_PREFERRED_VALIDATORS_API_URL is set
  op,             \* the hook under study, named by its operation
  isLoading,      \* the isLoading state of the hook
  txSignature,    \* the txSignature state of the hook ("null" or "sig")
  walletConnected,\* wallet.publicKey && wallet.signTransaction, as captured
  pc,             \* its position: the await it is suspended at, or "done"
  amount,         \* the amount argument, in units of 1/AmountGrid lamport
  lamports,       \* Math.floor(amount * LAMPORTS_PER_SOL)
  poolTokens,     \* createActiveStakeAccount: poolTokensToReceive
  held,           \* poolTokenAccountInfo.amount as read, -1 before the read
  minReserve,     \* the minimumRequiredLamports constant of the scan
  validators,     \* decoded validator list: sequence of [status]
  chain,          \* chain[i]: the derived stake account of validators[i]
  scanIdx,        \* index of the next validator the scan looks at
  selected,       \* index of the selected validator, 0 when none
  scanErrs,       \* indices whose account read threw inside the scan
  candidates,     \* ranked candidates returned by the endpoint
  selectedCand,   \* index of the selected candidate, 0 when none
  libIxs,         \* instructions returned by a library builder
  tx,             \* instructions of the transaction, in transaction order
  signers,        \* the ephemeral keypairs handed to sign / partialSign
  recentBlockhash,\* transaction.recentBlockhash, 0 while unset
  feePayer,       \* transaction.feePayer, "none" while unset
  signatures,     \* signatures on the transaction, in signing order
  signCalls,      \* calls of wallet.signTransaction in this invocation
  sendCalls,      \* calls of sendRawTransaction / sendTransaction
  sendOk,         \* TRUE iff the submission returned a signature
  confirmOutcome, \* "none", "ok", "err" (value.err set) or "throw"
  confirmKey,     \* the blockhash the confirmation wait is keyed to
  result,         \* what the operation returned
  thrown,         \* the error that ended the operation, "none" otherwise
  errDetail,      \* number named in the error message, -1 when none
  errAmount,      \* requested amount named in the error message, -1 when none
  toast,          \* the message of the last toast.error / toast.success
  arg,            \* functions studied alone: the argument
  out,            \* functions studied alone: the results so far
  calls,          \* overlapping invocations: the locals of each one
  ledger          \* overlapping invocations: the slot and the reads served

hookVars == <<isLoading, txSignature>>
argVars == <<op, walletConnected, amount, lamports>>
envVars == <<network, apiUrl>>
scanVars == <<minReserve, validators, chain, scanIdx, selected, scanErrs>>
candVars == <<candidates, selectedCand>>
callVars == <<signCalls, sendCalls, sendOk, confirmOutcome, confirmKey>>
endVars == <<result, thrown, errDetail, errAmount, toast>>
txVars == <<libIxs, tx>>
sigVars == <<signers, recentBlockhash, feePayer, signatures>>
concVars == <<calls, ledger>>
harnessVars == <<arg, out, calls, ledger>>
restVars == <<network, apiUrl, op, walletConnected, pc, lamports, poolTokens,
             minReserve, validators, chain, scanIdx, selected, scanErrs,
             candidates, selectedCand, libIxs, tx, signCalls, sendCalls, sendOk,
             confirmOutcome, confirmKey, result, thrown, errDetail, errAmount,
             toast, amount, held>>
hookState == <<network, apiUrl, isLoading, txSignature, op, walletConnected, pc,
          lamports, poolTokens, minReserve, validators, chain, scanIdx,
          selected, scanErrs, candidates, selectedCand, libIxs, tx, signers,
          recentBlockhash, feePayer, signatures, signCalls, sendCalls, sendOk,
          confirmOutcome, confirmKey, result, thrown, errDetail, errAmount,
          toast, amount, held>>
vars == <<hookState, harnessVars>>

\* ---------------------------------------------------------- pure helpers

\* Math.floor(amount * LAMPORTS_PER_SOL) for amount = a / (AmountGrid * LAMPORTS_PER_SOL)
ToLamports(a) == a \div AmountGrid

\* What a failed operation returns: false, or null for the operations that
\* return a stake-account address.
FailResult(o) == IF o \in KeyOps THEN "null" ELSE "false"

\* What a successful operation returns.
OkResult(o) == IF o \in KeyOps THEN "pubkey" ELSE "true"

\* ------------------------------------------------- instruction builders
\* A keypair the operation generated itself, named after its variable.
Key(name) == <<name, 0>>

\* The j-th signer returned by a library builder.
LibKey(j) == <<"lib", j>>

\* An instruction is [kind, prod, signers]: what it is, its position in the
\* order in which the operation produced its instruction groups, and the
\* keys other than the wallet that its account list marks isSigner.
IxS(k, n, s) == [kind |-> k, prod |-> n, signers |-> s]

\* An instruction that only the wallet signs, or nobody.
Ix(k, n) == IxS(k, n, {})

\* The signers a library builder returns next to its instructions.
LibSigners(m) == [j \in 1..m |-> LibKey(j)]

\* The instructions a library builder returns: an opaque group of n whose
\* account lists mark the m returned signers.
LibGroup(k, n, m) ==
  [i \in 1..n |-> IxS(k, 1, IF i = n THEN {LibKey(j) : j \in 1..m} ELSE {})]

\* depositSol: the instructions array, in the order of its pushes.
DepositSolInstructions ==
  << Ix("CreateATA", 1), Ix("ComputeBudget", 3), Ix("DepositSol", 2) >>

\* manual and ranked unstake: transaction.add calls before the selection.
UnstakeHead == << Ix("ComputeBudget", 1), Ix("Approve", 2) >>

\* manual and ranked unstake: transaction.add calls after the selection.
UnstakeTail ==
  << IxS("CreateAccount", 3, {Key("tempStakeAccount")}),
     IxS("WithdrawStake", 4, {Key("transferAuthority")}) >>

\* createActiveStakeAccount: the single transaction built after the scan.
CreateActiveInstructions(dep) ==
  << Ix("ComputeBudget", 2) >> \o dep \o
  << Ix("Approve", 3), IxS("CreateAccount", 4, {Key("stakeReceiver")}),
     IxS("WithdrawStake", 5, {Key("transferAuthority")}) >>

\* createStakeAccount (create and delegate).
CreateDelegateInstructions ==
  << Ix("ComputeBudget", 3), IxS("CreateAccount", 1, {Key("stakeAccount")}),
     Ix("StakeInitialize", 1), Ix("Delegate", 2) >>

\* manual stake deposit through the interceptor.
StakeDepositInstructions ==
  << Ix("ComputeBudget", 1), Ix("CreateATA", 2), Ix("AuthorizeStaker", 3),
     Ix("AuthorizeWithdrawer", 4), IxS("DepositStake", 5, {Key("base")}) >>

\* assisted operations: compute budget, then what the library returned.
AssistedInstructions(lib) == << Ix("ComputeBudget", 2) >> \o lib

\* useAssistedStakeDeposit.stake: create and delegate a stake account, then
\* what the interceptor library returned.
CreateAndDepositInstructions(lib) ==
  << Ix("ComputeBudget", 4), IxS("CreateAccount", 1, {Key("stakeAccount")}),
     Ix("StakeInitialize", 1), Ix("Delegate", 2) >> \o
  [i \in 1..Len(lib) |-> IxS(lib[i].kind, 3, lib[i].signers)]

\* The keypairs each operation hands to sign / partialSign before the
\* wallet signs (lib: the signers its library builder returned).
SignersOf(o, lib) ==
  CASE o \in {"manualUnstake", "preferredUnstake"} ->
         << Key("transferAuthority"), Key("tempStakeAccount") >>
    [] o = "createActiveStakeAccount" ->
         << Key("stakeReceiver"), Key("transferAuthority") >> \o lib
    [] o = "createStakeAccount" -> << Key("stakeAccount") >>
    [] o = "createAndDepositStake" -> << Key("stakeAccount") >> \o lib
    [] o = "manualStakeDeposit" -> << Key("base") >>
    [] o = "depositSol" -> << >>
    [] OTHER -> lib

\* The keys other than the wallet that must sign transaction t.
RequiredSigners(t) == UNION {t[i].signers : i \in 1..Len(t)}

\* A signature of key k: it is over the message as it is at that moment,
\* recent blockhash and fee payer included.
SignatureOf(k, hash, payer) == [by |-> k, hash |-> hash, payer |-> payer]

\* Variant: the last keypair of the array does not sign.
SignAllButLast(ks, hash, payer) ==
  [i \in 1..(Len(ks) - 1) |-> SignatureOf(ks[i], hash, payer)]

\* transaction.sign(...ks) / partialSign(...ks): one signature per keypair,
\* in the order of the array.
SignAll(ks, hash, payer) ==
  [i \in 1..Len(ks) |-> SignatureOf(ks[i], hash, payer)]

\* ------------------------------------------------------- local scan
\* Variant: a scan loop without the status test.
StatusEligibleAny(v) == TRUE

\* The status test at the head of the scan loop.
StatusEligible(v) == v.status = 0

\* Index of the first entry at or after i that passes the status test;
\* Len(vs) + 1 when there is none.  Entries failing the test are skipped
\* without any account read.
RECURSIVE NextActive(_, _)
NextActive(vs, i) ==
  IF i > Len(vs) THEN Len(vs) + 1
  ELSE IF StatusEligible(vs[i]) THEN i
  ELSE NextActive(vs, i + 1)

\* The minimum-reserve constant the scan of operation o subtracts.
MinimumRequiredLamports(o, net) ==
  IF o = "manualUnstake"
    THEN IF net = "testnet" THEN minimumRequiredLamports_Testnet
                             ELSE minimumRequiredLamports_Mainnet
    ELSE createStake_minimumRequiredLamports

\* The tests the scan applies to the account it read for a candidate.
OwnerAccepted(o, acct) ==
  IF o = "manualUnstake" THEN acct.owner = "stake" ELSE TRUE

HasEnough(acct, reserve, lam) == acct.lamports - reserve > lam * 2

Accepts(o, acct, reserve, lam) ==
  /\ acct.exists
  /\ OwnerAccepted(o, acct)
  /\ HasEnough(acct, reserve, lam)

\* Variant: no check of the selection after the loop.
AfterScanNoCheck(sel) == "rent"

\* After the loop: throw when nothing was selected, otherwise go on to the
\* rent query (sel is the selected index, 0 for none).
AfterScan(sel) == IF sel = 0 THEN "throw" ELSE "rent"

\* An account read that throws inside the loop: caught and skipped by the
\* manual unstake, propagated by createActiveStakeAccount.
ScanCatches(o) == o = "manualUnstake"

\* ------------------------------------------------- ranked candidates
\* preferredValidators.find(v => v.withdrawable_lamports >= lamports):
\* index of the first match in array order, 0 when there is none.
RECURSIVE FindFrom(_, _, _)
FindFrom(cs, lam, i) ==
  IF i > Len(cs) THEN 0
  ELSE IF cs[i].withdrawable >= lam THEN i
  ELSE FindFrom(cs, lam, i + 1)

FindPreferred(cs, lam) == FindFrom(cs, lam, 1)

\* Math.max(...preferredValidators.map(v => v.withdrawable_lamports))
RECURSIVE MaxFrom(_, _)
MaxFrom(cs, i) ==
  IF i = Len(cs) THEN cs[i].withdrawable
  ELSE LET m == MaxFrom(cs, i + 1)
       IN IF cs[i].withdrawable >= m THEN cs[i].withdrawable ELSE m

MaxAvailable(cs) == MaxFrom(cs, 1)

\* ------------------------------------------------------ outcome rules
\* Variant: a catch block that rebuilds from a fresh blockhash and retries
\* after a failed submission or confirmation.
CatchPcRetry(at) == IF at \in {"send", "confirm"} THEN "blockhash" ELSE "done"

\* Where an operation continues after its catch block.
CatchPc(at) == "done"

\* The message the catch block of operation o shows for an error of kind
\* k: err.message in the two manual unstake hooks (every error carries its
\* own message), one fixed string per hook everywhere else.
ErrorToast(o, k) ==
  IF o \in {"manualUnstake", "preferredUnstake"} THEN k ELSE "OperationFailed"

\* What the operation returns when confirmTransaction resolves with a
\* result whose value.err is set: only the assisted unstake inspects it.
ConfirmErrResult(o) ==
  IF o = "assistedUnstake" THEN FailResult(o) ELSE OkResult(o)

\* ------------------------------------------------ sets of input values
Statuses == {0, 1}
Owners == {"stake", "system"}
Absent == [exists |-> FALSE, owner |-> "none", lamports |-> 0]
Accounts ==
  {Absent} \cup
  [ exists : {TRUE}, owner : Owners,
    lamports : { minimumRequiredLamports_Mainnet + Headroom,
                 minimumRequiredLamports_Testnet + Headroom } ]
Funded ==
  [exists |-> TRUE, owner |-> "stake",
   lamports |-> minimumRequiredLamports_Testnet + Headroom]
\* Entries of the validator list with their derived stake account: any
\* account behind an Active entry, a funded one behind the others.
Entries ==
  [status : {0}, acct : Accounts] \cup [status : Statuses \ {0}, acct : {Funded}]
Ranks == {1, 2}
Candidates == [rank : Ranks, withdrawable : 0..MaxWithdrawable]
PoolTotals == { <<0, 0>>, <<1, 1>>, <<1, 2>> }   \* <<poolTokenSupply, totalLamports>>
SeqsUpTo(S, n) == UNION { [1..k -> S] : k \in 0..n }

HookInit ==
  /\ network \in Networks
  /\ op \in Ops
  /\ apiUrl \in IF op = "preferredUnstake" THEN BOOLEAN ELSE {TRUE}
  /\ isLoading = FALSE
  /\ txSignature = "null"
  /\ walletConnected = FALSE
  /\ pc = "done"
  /\ lamports = 0
  /\ poolTokens = 0
  /\ held = -1
  /\ minReserve = 0
  /\ validators = <<>>
  /\ chain = <<>>
  /\ scanIdx = 0
  /\ selected = 0
  /\ scanErrs = {}
  /\ candidates = <<>>
  /\ selectedCand = 0
  /\ libIxs = <<>>
  /\ tx = <<>>
  /\ signers = <<>>
  /\ recentBlockhash = 0
  /\ feePayer = "none"
  /\ signatures = <<>>
  /\ signCalls = 0
  /\ sendCalls = 0
  /\ sendOk = FALSE
  /\ confirmOutcome = "none"
  /\ confirmKey = -1
  /\ result = "none"
  /\ thrown = "none"
  /\ errDetail = -1
  /\ errAmount = -1
  /\ toast = "none"
  /\ amount = 0

\* The state after the hooks are constructed.
Init ==
  /\ HookInit
  /\ arg = <<>>
  /\ out = <<>>
  /\ calls = <<>>
  /\ ledger = [slot |-> 0]

\* ------------------------------------------------------------- actions
\* The catch and finally blocks: report failure and clear isLoading.
Throw(at, k, d) ==
  /\ pc' = CatchPc(at)
  /\ result' = FailResult(op)
  /\ thrown' = k
  /\ errDetail' = d
  /\ errAmount' = IF k = "InsufficientBalance" THEN amount ELSE -1
  /\ toast' = ErrorToast(op, k)
  /\ isLoading' = FALSE

LamportOps ==
  { "depositSol", "createActiveStakeAccount", "createStakeAccount",
    "manualUnstake", "preferredUnstake", "assistedStake",
    "createAndDepositStake" }

\* The first await of each operation.
FirstPc(o) ==
  CASE o \in {"depositSol", "createActiveStakeAccount", "manualUnstake",
              "preferredUnstake", "assistedUnstake"} -> "pool"
    [] o \in {"createStakeAccount", "createAndDepositStake"} -> "rent"
    [] o \in {"manualStakeDeposit", "assistedStakeDeposit"} -> "stakeAcct"
    [] o = "assistedStake" -> "build"

\* The network selector of the navigation bar, used between operations.
SwitchNetwork ==
  /\ pc = "done"
  /\ UNCHANGED harnessVars
  /\ network' \in Networks \ {network}
  /\ UNCHANGED <<apiUrl, isLoading, txSignature, argVars, pc, poolTokens, held,
                 scanVars, candVars, txVars, sigVars, callVars, endVars>>

\* A call of the operation o of its hook with amount a, from its entry to
\* its first await (or to its return, when it ends before any await).
InvokeWith(o, a, conn) ==
  /\ UNCHANGED op
  /\ walletConnected' = conn
  /\ amount' = IF o \in LamportOps THEN a ELSE 0
  /\ lamports' = IF o \in LamportOps THEN ToLamports(a) ELSE 0
  /\ poolTokens' = 0
  /\ held' = -1
  /\ minReserve' = 0
  /\ validators' = <<>>
  /\ chain' = <<>>
  /\ scanIdx' = 0
  /\ selected' = 0
  /\ scanErrs' = {}
  /\ candidates' = <<>>
  /\ selectedCand' = 0
  /\ libIxs' = <<>>
  /\ tx' = <<>>
  /\ signers' = <<>>
  /\ recentBlockhash' = 0
  /\ feePayer' = "none"
  /\ signatures' = <<>>
  /\ signCalls' = 0
  /\ sendCalls' = 0
  /\ sendOk' = FALSE
  /\ confirmOutcome' = "none"
  /\ confirmKey' = -1
  /\ UNCHANGED envVars
  /\ IF o # "assistedUnstake" /\ ~conn
       THEN \* toast.error('Wallet not connected'); return false
            /\ pc' = "done"
            /\ result' = FailResult(o)
            /\ thrown' = "WalletNotConnected"
            /\ errDetail' = -1
            /\ errAmount' = -1
            /\ toast' = "WalletNotConnected"
            /\ UNCHANGED hookVars
       ELSE /\ txSignature' = "null"
            /\ IF o \in {"manualUnstake", "preferredUnstake"} /\ ToLamports(a) <= 0
                 THEN \* throw new Error('Invalid amount specified')
                      /\ pc' = CatchPc("entry")
                      /\ result' = FailResult(o)
                      /\ thrown' = "InvalidAmount"
                      /\ errDetail' = -1
                      /\ errAmount' = -1
                      /\ toast' = ErrorToast(o, "InvalidAmount")
                      /\ isLoading' = FALSE
                 ELSE /\ pc' = FirstPc(o)
                      /\ result' = "none"
                      /\ thrown' = "none"
                      /\ errDetail' = -1
                      /\ errAmount' = -1
                      /\ toast' = "none"
                      /\ isLoading' = TRUE

Invoke ==
  /\ pc = "done"
  /\ UNCHANGED harnessVars
  /\ \E a \in 0..MaxAmount, conn \in BOOLEAN : InvokeWith(op, a, conn)

\* await getStakePoolAccount(connection, JITO_STAKE_POOL_ADDRESS)
FetchPoolWith(ok, totals) ==
  /\ UNCHANGED <<envVars, argVars, held, scanVars,
                 candVars, libIxs, sigVars, callVars>>
  /\ IF ~ok
       THEN IF op = "assistedUnstake"
              THEN \* the call is outside the try block: the promise rejects
                   /\ pc' = "done"
                   /\ result' = "rejected"
                   /\ thrown' = "RemoteUnavailable"
                   /\ UNCHANGED <<errDetail, errAmount, toast, hookVars, poolTokens, tx>>
              ELSE /\ Throw("pool", "RemoteUnavailable", -1)
                   /\ UNCHANGED <<txSignature, poolTokens, tx>>
       ELSE CASE op = "depositSol" ->
                   /\ tx' = DepositSolInstructions
                   /\ pc' = "blockhash"
                   /\ UNCHANGED <<hookVars, poolTokens, endVars>>
              [] op = "createActiveStakeAccount" ->
                   IF totals[2] = 0
                     THEN \* BigInt division by zero: RangeError
                          /\ Throw("pool", "DivisionByZero", -1)
                          /\ UNCHANGED <<txSignature, poolTokens, tx>>
                     ELSE /\ poolTokens' = (lamports * totals[1]) \div totals[2]
                          /\ pc' = "build"
                          /\ UNCHANGED <<hookVars, tx, endVars>>
              [] op \in {"manualUnstake", "preferredUnstake"} ->
                   /\ pc' = "tokenAcct"
                   /\ UNCHANGED <<hookVars, poolTokens, tx, endVars>>
              [] op = "manualStakeDeposit" ->
                   /\ pc' = "authInfo"
                   /\ UNCHANGED <<hookVars, poolTokens, tx, endVars>>
              [] op = "assistedUnstake" ->
                   IF ~walletConnected
                     THEN \* toast.error(...); return false; finally
                          /\ pc' = "done"
                          /\ result' = FailResult(op)
                          /\ thrown' = "WalletNotConnected"
                          /\ toast' = "WalletNotConnected"
                          /\ isLoading' = FALSE
                          /\ UNCHANGED <<errDetail, errAmount, txSignature, poolTokens, tx>>
                     ELSE /\ pc' = "api"
                          /\ UNCHANGED <<hookVars, poolTokens, tx, endVars>>

FetchPool ==
  /\ pc = "pool"
  /\ UNCHANGED harnessVars
  /\ \E ok \in BOOLEAN, totals \in PoolTotals : FetchPoolWith(ok, totals)

\* Variant: no comparison of the balance with the request.
InsufficientBalanceNever(balance, lam) == FALSE

\* poolTokenAccountInfo.amount < BigInt(lamports)
InsufficientBalance(balance, lam) == balance < lam

\* await getAccount(connection, userPoolTokenAccount).catch(() => null),
\* the balance check, and the instructions added before the selection.
FetchTokenAccountWith(found, balance) ==
  /\ UNCHANGED <<envVars, argVars, poolTokens, scanVars, candVars, libIxs,
                 sigVars, callVars, txSignature>>
  /\ held' = IF found THEN balance ELSE held
  /\ IF ~found
       THEN Throw("tokenAcct", "NoTokenAccount", -1) /\ UNCHANGED tx
       ELSE IF InsufficientBalance(balance, lamports)
         THEN Throw("tokenAcct", "InsufficientBalance", balance) /\ UNCHANGED tx
         ELSE IF op = "preferredUnstake" /\ ~apiUrl
           THEN \* throw new Error('Preferred validators API URL not configured ...')
                /\ tx' = UnstakeHead
                /\ Throw("tokenAcct", "ApiNotConfigured", -1)
           ELSE /\ tx' = UnstakeHead
                /\ pc' = IF op = "manualUnstake" THEN "vlist" ELSE "api"
                /\ UNCHANGED <<isLoading, endVars>>

FetchTokenAccount ==
  /\ pc = "tokenAcct"
  /\ UNCHANGED harnessVars
  /\ \E found \in BOOLEAN, balance \in 0..MaxBalance :
       FetchTokenAccountWith(found, balance)

\* Leaving the scan loop at index i: the next await is the account read of
\* validators[i]; past the end of the list nothing was selected.
ScanAdvance(vs, i) ==
  /\ scanIdx' = i
  /\ IF i > Len(vs)
       THEN IF AfterScan(selected) = "throw"
              THEN Throw("scan", "NoEligibleValidator", -1)
              ELSE pc' = AfterScan(selected) /\ UNCHANGED <<isLoading, endVars>>
       ELSE pc' = "scan" /\ UNCHANGED <<isLoading, endVars>>

\* await connection.getAccountInfo(validatorList), the decoding of the list
\* and the scan up to its first account read.
FetchValidatorListWith(outcome, es) ==
  /\ UNCHANGED <<envVars, argVars, poolTokens, held, candVars,
                 txVars, sigVars, callVars, txSignature, selected, scanErrs>>
  /\ CASE outcome = "throw" ->
            /\ Throw("vlist", "RemoteUnavailable", -1)
            /\ UNCHANGED <<minReserve, validators, chain, scanIdx>>
       [] outcome = "null" ->
            /\ Throw("vlist", "ValidatorListFetch", -1)
            /\ UNCHANGED <<minReserve, validators, chain, scanIdx>>
       [] outcome = "ok" ->
            LET vs == [i \in 1..Len(es) |-> [status |-> es[i].status]]
            IN /\ validators' = vs
               /\ chain' = [i \in 1..Len(es) |-> es[i].acct]
               /\ minReserve' = MinimumRequiredLamports(op, network)
               /\ ScanAdvance(vs, NextActive(vs, 1))

FetchValidatorList ==
  /\ pc = "vlist"
  /\ UNCHANGED harnessVars
  /\ \/ \E outcome \in {"throw", "null"} : FetchValidatorListWith(outcome, <<>>)
     \/ \E es \in SeqsUpTo(Entries, MaxValidators) :
          FetchValidatorListWith("ok", es)

\* One iteration of the scan loop that reads an account: the derivation of
\* the stake address, await connection.getAccountInfo(derivedStakeAddress),
\* the tests, and the loop up to the next account read.
ScanStepWith(readOk) ==
  /\ UNCHANGED <<envVars, argVars, poolTokens, held, candVars,
                 txVars, sigVars, callVars, txSignature, minReserve, validators,
                 chain>>
  /\ IF ~readOk
       THEN IF ScanCatches(op)
              THEN /\ scanErrs' = scanErrs \cup {scanIdx}
                   /\ UNCHANGED selected
                   /\ ScanAdvance(validators, NextActive(validators, scanIdx + 1))
              ELSE /\ Throw("scan", "RemoteUnavailable", -1)
                   /\ UNCHANGED <<scanIdx, selected, scanErrs>>
       ELSE IF Accepts(op, chain[scanIdx], minReserve, lamports)
              THEN /\ selected' = scanIdx
                   /\ pc' = AfterScan(scanIdx)
                   /\ UNCHANGED <<scanIdx, scanErrs, isLoading, endVars>>
              ELSE /\ UNCHANGED <<selected, scanErrs>>
                   /\ ScanAdvance(validators, NextActive(validators, scanIdx + 1))

ScanStep ==
  /\ pc = "scan"
  /\ UNCHANGED harnessVars
  /\ \E readOk \in BOOLEAN : ScanStepWith(readOk)

\* await fetch(apiUrl) and response.json(), and the choice of a candidate.
FetchPreferredWith(outcome, cs) ==
  /\ UNCHANGED <<envVars, argVars, poolTokens, held, scanVars,
                 txVars, sigVars, callVars, txSignature>>
  /\ IF op = "preferredUnstake"
       THEN CASE outcome \in {"throw", "notOk"} ->
                   /\ Throw("api", "ApiFetch", -1)
                   /\ UNCHANGED candVars
              [] outcome = "ok" /\ cs = <<>> ->
                   /\ Throw("api", "ApiFetch", -1)
                   /\ UNCHANGED candVars
              [] outcome = "ok" /\ cs # <<>> ->
                   /\ candidates' = cs
                   /\ selectedCand' = FindPreferred(cs, lamports)
                   /\ IF FindPreferred(cs, lamports) = 0
                        THEN Throw("api", "NoEligibleValidator", MaxAvailable(cs))
                        ELSE pc' = "rent" /\ UNCHANGED <<isLoading, endVars>>
       ELSE \* assisted unstake: every failure is swallowed, and only the
            \* first entry of the response is read
            /\ pc' = "build"
            /\ UNCHANGED <<isLoading, endVars>>
            /\ IF outcome = "ok" /\ cs # <<>>
                 THEN candidates' = SubSeq(cs, 1, 1) /\ selectedCand' = 1
                 ELSE UNCHANGED candVars

FetchPreferred ==
  /\ pc = "api"
  /\ UNCHANGED harnessVars
  /\ \/ \E outcome \in {"throw", "notOk"} : FetchPreferredWith(outcome, <<>>)
     \/ \E cs \in SeqsUpTo(Candidates, MaxCandidates) :
          FetchPreferredWith("ok", cs)

\* await of a library instruction builder (depositSol, depositStake,
\* withdrawStake of the stake-pool and interceptor libraries).
LibBuildWith(ok, n, m) ==
  /\ UNCHANGED <<envVars, argVars, poolTokens, held, scanVars,
                 candVars, callVars, txSignature, recentBlockhash, feePayer,
                 signatures>>
  /\ IF ~ok
       THEN Throw("build", "RemoteUnavailable", -1) /\ UNCHANGED <<txVars, signers>>
       ELSE /\ libIxs' = LibGroup("Library", n, m)
            /\ signers' = LibSigners(m)
            /\ UNCHANGED <<isLoading, endVars>>
            /\ CASE op = "createActiveStakeAccount" ->
                        pc' = "vlist" /\ UNCHANGED tx
                   [] op = "createAndDepositStake" ->
                        /\ pc' = "blockhash"
                        /\ tx' = CreateAndDepositInstructions(LibGroup("Library", n, m))
                   [] OTHER ->
                        /\ pc' = "blockhash"
                        /\ tx' = AssistedInstructions(LibGroup("Library", n, m))

LibBuild ==
  /\ pc = "build"
  /\ UNCHANGED harnessVars
  /\ \E ok \in BOOLEAN, n \in 1..MaxLibIx, m \in 0..MaxLibSigners :
       LibBuildWith(ok, n, m)

\* await connection.getAccountInfo(stakeAccountAddress)
FetchStakeAccountWith(outcome) ==
  /\ UNCHANGED <<envVars, argVars, poolTokens, held, scanVars,
                 candVars, txVars, sigVars, callVars, txSignature>>
  /\ CASE outcome = "throw" -> Throw("stakeAcct", "RemoteUnavailable", -1)
       [] outcome = "null" -> Throw("stakeAcct", "StakeAccountNotFound", -1)
       [] outcome = "ok" ->
            /\ pc' = IF op = "manualStakeDeposit" THEN "pool" ELSE "build"
            /\ UNCHANGED <<isLoading, endVars>>

FetchStakeAccount ==
  /\ pc = "stakeAcct"
  /\ UNCHANGED harnessVars
  /\ \E outcome \in {"throw", "null", "ok"} : FetchStakeAccountWith(outcome)

\* await connection.getAccountInfo(depositStakeAuthority) and the
\* instructions of the manual stake deposit.
FetchAuthorityInfoWith(outcome) ==
  /\ UNCHANGED <<envVars, argVars, poolTokens, held, scanVars,
                 candVars, libIxs, sigVars, callVars, txSignature>>
  /\ CASE outcome = "throw" ->
            Throw("authInfo", "RemoteUnavailable", -1) /\ UNCHANGED tx
       [] outcome = "null" ->
            Throw("authInfo", "AuthorityNotFound", -1) /\ UNCHANGED tx
       [] outcome = "ok" ->
            /\ tx' = StakeDepositInstructions
            /\ pc' = "blockhash"
            /\ UNCHANGED <<isLoading, endVars>>

FetchAuthorityInfo ==
  /\ pc = "authInfo"
  /\ UNCHANGED harnessVars
  /\ \E outcome \in {"throw", "null", "ok"} : FetchAuthorityInfoWith(outcome)

\* await connection.getMinimumBalanceForRentExemption(StakeProgram.space)
\* and the instructions added after it.
FetchRentWith(ok) ==
  /\ UNCHANGED <<envVars, argVars, poolTokens, held, scanVars,
                 candVars, libIxs, sigVars, callVars, txSignature>>
  /\ IF ~ok
       THEN Throw("rent", "RemoteUnavailable", -1) /\ UNCHANGED tx
       ELSE /\ pc' = IF op = "createAndDepositStake" THEN "build" ELSE "blockhash"
            /\ UNCHANGED <<isLoading, endVars>>
            /\ tx' = CASE op \in {"manualUnstake", "preferredUnstake"} ->
                            tx \o UnstakeTail
                       [] op = "createActiveStakeAccount" ->
                            CreateActiveInstructions(libIxs)
                       [] op = "createStakeAccount" ->
                            CreateDelegateInstructions
                       [] op = "createAndDepositStake" -> tx

FetchRent ==
  /\ pc = "rent"
  /\ UNCHANGED harnessVars
  /\ \E ok \in BOOLEAN : FetchRentWith(ok)

\* Variant: the keypairs sign before the blockhash is assigned.
SignedOverStale(hash) == 0

\* The recent blockhash the keypairs of the operation sign over: the one
\* just assigned to the transaction.
SignedOver(hash) == hash

\* await connection.getLatestBlockhash(), the assignments of recentBlockhash
\* and feePayer, then transaction.sign / partialSign with the keypairs.
FetchBlockhashWith(ok, hash) ==
  /\ UNCHANGED <<envVars, argVars, poolTokens, held, scanVars,
                 candVars, txVars, callVars, txSignature>>
  /\ IF ~ok
       THEN Throw("blockhash", "RemoteUnavailable", -1) /\ UNCHANGED sigVars
       ELSE /\ recentBlockhash' = hash
            /\ feePayer' = "wallet"
            /\ signers' = SignersOf(op, signers)
            /\ signatures' =
                 SignAll(SignersOf(op, signers), SignedOver(hash), "wallet")
            /\ pc' = "sign"
            /\ UNCHANGED <<isLoading, endVars>>

FetchBlockhash ==
  /\ pc = "blockhash"
  /\ UNCHANGED harnessVars
  /\ \E ok \in BOOLEAN, hash \in 1..MaxBlockhash : FetchBlockhashWith(ok, hash)

\* Variant: a rejected signature does not stop the operation.
AfterSignIgnoreReject(ok) == "send"

\* After wallet.signTransaction: a rejection throws, otherwise the signed
\* transaction is submitted.
AfterSign(ok) == IF ok THEN "send" ELSE "throw"

\* await wallet.signTransaction(transaction)
WalletSignWith(ok) ==
  /\ signCalls' = signCalls + 1
  /\ UNCHANGED <<envVars, argVars, poolTokens, held, scanVars,
                 candVars, txVars, sendCalls, sendOk, confirmOutcome,
                 confirmKey, txSignature, signers, recentBlockhash, feePayer>>
  /\ signatures' =
       IF ok THEN Append(signatures,
                         SignatureOf(Key("wallet"), recentBlockhash, feePayer))
             ELSE signatures
  /\ IF AfterSign(ok) = "throw"
       THEN Throw("sign", "UserRejected", -1)
       ELSE pc' = AfterSign(ok) /\ UNCHANGED <<isLoading, endVars>>

WalletSign ==
  /\ pc = "sign"
  /\ UNCHANGED harnessVars
  /\ \E ok \in BOOLEAN : WalletSignWith(ok)

\* await connection.sendRawTransaction(...) (sendTransaction in the
\* assisted unstake), and setTxSignature where the operation calls it here.
SendWith(ok) ==
  /\ sendCalls' = sendCalls + 1
  /\ UNCHANGED <<envVars, argVars, poolTokens, held, scanVars,
                 candVars, txVars, sigVars, signCalls, confirmOutcome,
                 confirmKey>>
  /\ IF ~ok
       THEN /\ Throw("send", "SendFailed", -1)
            /\ UNCHANGED <<sendOk, txSignature>>
       ELSE /\ sendOk' = TRUE
            /\ pc' = "confirm"
            /\ txSignature' = IF op = "assistedUnstake" THEN txSignature
                              ELSE "sig"
            /\ UNCHANGED <<isLoading, endVars>>

Send ==
  /\ pc = "send"
  /\ UNCHANGED harnessVars
  /\ \E ok \in BOOLEAN : SendWith(ok)

\* What the confirmation wait is keyed to: the blockhash and the last valid
\* block height fetched with it, or nothing but the signature (0) in the
\* assisted unstake.
ConfirmKey(o, hash) == IF o = "assistedUnstake" THEN 0 ELSE hash

\* await connection.confirmTransaction(...) and the return of the operation.
ConfirmWith(outcome) ==
  /\ confirmOutcome' = outcome
  /\ confirmKey' = ConfirmKey(op, recentBlockhash)
  /\ UNCHANGED <<envVars, argVars, poolTokens, held, scanVars,
                 candVars, txVars, sigVars, signCalls, sendCalls, sendOk>>
  /\ CASE outcome = "throw" ->
            /\ Throw("confirm", "ConfirmFailed", -1)
            /\ UNCHANGED txSignature
       [] outcome = "err" ->
            /\ pc' = "done"
            /\ result' = ConfirmErrResult(op)
            /\ thrown' = IF ConfirmErrResult(op) = FailResult(op)
                           THEN "TransactionFailed" ELSE "none"
            /\ toast' = IF ConfirmErrResult(op) = FailResult(op)
                          THEN "TransactionFailed" ELSE "success"
            /\ isLoading' = FALSE
            /\ txSignature' =
                 IF op = "assistedUnstake" /\ ConfirmErrResult(op) # FailResult(op)
                   THEN "sig" ELSE txSignature
            /\ UNCHANGED <<errDetail, errAmount>>
       [] outcome = "ok" ->
            /\ pc' = "done"
            /\ result' = OkResult(op)
            /\ isLoading' = FALSE
            /\ txSignature' = "sig"
            /\ toast' = "success"
            /\ UNCHANGED <<thrown, errDetail, errAmount>>

Confirm ==
  /\ pc = "confirm"
  /\ UNCHANGED harnessVars
  /\ \E outcome \in {"throw", "err", "ok"} : ConfirmWith(outcome)

Next ==
  \/ SwitchNetwork
  \/ Invoke
  \/ FetchPool
  \/ FetchTokenAccount
  \/ FetchValidatorList
  \/ ScanStep
  \/ FetchPreferred
  \/ LibBuild
  \/ FetchStakeAccount
  \/ FetchAuthorityInfo
  \/ FetchRent
  \/ FetchBlockhash
  \/ WalletSign
  \/ Send
  \/ Confirm

Spec == Init /\ [][Next]_vars

\* Every external call an operation awaits settles: the promise resolves or
\* rejects, so the step after each await is eventually taken. The user is
\* under no obligation to invoke an operation or to switch networks.
AwaitsSettle ==
  /\ WF_vars(FetchPool)
  /\ WF_vars(FetchTokenAccount)
  /\ WF_vars(FetchValidatorList)
  /\ WF_vars(ScanStep)
  /\ WF_vars(FetchPreferred)
  /\ WF_vars(LibBuild)
  /\ WF_vars(FetchStakeAccount)
  /\ WF_vars(FetchAuthorityInfo)
  /\ WF_vars(FetchRent)
  /\ WF_vars(FetchBlockhash)
  /\ WF_vars(WalletSign)
  /\ WF_vars(Send)
  /\ WF_vars(Confirm)

SpecFair == Spec /\ AwaitsSettle

\* ------------------------------------------- instruction data encoding
\* The data of the DepositSol and WithdrawStake instructions, studied alone.
\* A byte of the amount field is modelled with two bits, so that the field
\* keeps its 8 bytes and its values stay within the integers of the model
\* checker: ByteBase ^ AmountBytes stands for 2^64.
ByteBase == 4
AmountBytes == 8

RECURSIVE Pow(_, _)
Pow(b, n) == IF n = 0 THEN 1 ELSE b * Pow(b, n - 1)

U64Modulus == Pow(ByteBase, AmountBytes)
I64Min == - (U64Modulus \div 2)
I64Max == (U64Modulus \div 2) - 1

\* The n low bytes of v, least significant first.
RECURSIVE LittleEndian(_, _)
LittleEndian(v, n) ==
  IF n = 0 THEN <<>>
  ELSE <<v % ByteBase>> \o LittleEndian(v \div ByteBase, n - 1)

\* buf.writeBigInt64LE(v, 1): a RangeError outside the signed 64-bit range,
\* otherwise the two's complement of v in 8 bytes.
WriteBigInt64LE(v) ==
  IF v < I64Min \/ v > I64Max
    THEN [ok |-> FALSE, bytes |-> <<>>]
    ELSE [ok |-> TRUE, bytes |-> LittleEndian(v % U64Modulus, AmountBytes)]

\* dataLayout.writeUInt8(index, 0)
InstructionIndex(ix) == IF ix = "DepositSol" THEN 14 ELSE 10

\* Buffer.alloc(9), writeUInt8(index, 0), writeBigInt64LE(BigInt(v), 1)
EncodeInstructionData(ix, v) ==
  LET w == WriteBigInt64LE(v)
  IN IF w.ok THEN [ok |-> TRUE, data |-> <<InstructionIndex(ix)>> \o w.bytes]
             ELSE [ok |-> FALSE, data |-> <<>>]

EncodedInstructions == {"DepositSol", "WithdrawStake"}
EncodedAmounts ==
  { b + d : b \in {0, I64Max + 1, U64Modulus}, d \in (-EncWindow)..EncWindow }

EncodeInit ==
  /\ HookInit
  /\ network = "mainnet"
  /\ op = "depositSol"
  /\ arg \in [ix : EncodedInstructions, lamports : EncodedAmounts]
  /\ out = <<>>
  /\ calls = <<>>
  /\ ledger = [slot |-> 0]

\* The instruction data is built for the amount at hand.
Encode ==
  /\ out = <<>>
  /\ out' = <<EncodeInstructionData(arg.ix, arg.lamports)>>
  /\ UNCHANGED <<hookState, arg, concVars>>

EncodeNext == Encode

SpecEncode == EncodeInit /\ [][EncodeNext]_vars

\* --------------------------------------------- stake-account decoding
\* The vote address the stake-deposit hooks read from the data of the stake
\* account, studied alone.
VOTE_ACCOUNT_OFFSET == 124
PUBLIC_KEY_LENGTH == 32

\* data.slice(start, end): the bytes at offsets start .. end - 1, as far as
\* the buffer reaches.
Slice(data, start, end) ==
  LET e == IF end > Len(data) THEN Len(data) ELSE end
  IN IF start >= e THEN <<>> ELSE [i \in 1..(e - start) |-> data[start + i]]

\* new PublicKey(bytes): the bytes as a big-endian number of 32 bytes, so a
\* shorter array is padded with leading zeros.
PublicKeyOf(bytes) ==
  LET pad == PUBLIC_KEY_LENGTH - Len(bytes)
  IN [i \in 1..PUBLIC_KEY_LENGTH |-> IF i <= pad THEN 0 ELSE bytes[i - pad]]

\* Variant: a slice that starts one byte late.
VoteSliceShifted(data) ==
  Slice(data, VOTE_ACCOUNT_OFFSET + 1, VOTE_ACCOUNT_OFFSET + 1 + PUBLIC_KEY_LENGTH)

\* stakeAccountInfo.data.slice(VOTE_ACCOUNT_OFFSET, VOTE_ACCOUNT_OFFSET + 32)
VoteSlice(data) ==
  Slice(data, VOTE_ACCOUNT_OFFSET, VOTE_ACCOUNT_OFFSET + PUBLIC_KEY_LENGTH)

ValidatorVoteAccount(data) == PublicKeyOf(VoteSlice(data))

\* Account data of len bytes: byte `before` up to the vote address, the 32
\* bytes `vote` at the offset, byte `after` behind them.
StakeBuffer(len, before, vote, after) ==
  [i \in 1..len |->
     IF i <= VOTE_ACCOUNT_OFFSET THEN before
     ELSE IF i <= VOTE_ACCOUNT_OFFSET + PUBLIC_KEY_LENGTH
       THEN vote[i - VOTE_ACCOUNT_OFFSET]
       ELSE after]

\* The sizes of the accounts getAccountInfo may return: empty, a token
\* mint, a token account, and a stake account (StakeProgram.space).
BufferLengths == {0, 82, 165, 200}

VoteAddresses ==
  { [i \in 1..PUBLIC_KEY_LENGTH |-> (i * k + c) % (MaxByte + 1)] :
      k \in 0..MaxByte, c \in 0..MaxByte }

DecodeInit ==
  /\ HookInit
  /\ network = "mainnet"
  /\ op = "manualStakeDeposit"
  /\ \E len \in BufferLengths, before \in 0..MaxByte, after \in 0..MaxByte,
        vote \in VoteAddresses :
       arg = [data |-> StakeBuffer(len, before, vote, after), placed |-> vote]
  /\ out = <<>>
  /\ calls = <<>>
  /\ ledger = [slot |-> 0]

\* The vote address is read from the account data at hand.
Decode ==
  /\ out = <<>>
  /\ out' = <<ValidatorVoteAccount(arg.data)>>
  /\ UNCHANGED <<hookState, arg, concVars>>

DecodeNext == Decode

SpecDecode == DecodeInit /\ [][DecodeNext]_vars

\* ------------------------------------------------- deposit transactions
\* The instruction lists of the deposits, with their account keys and data,
\* studied alone: the same deposit is built MaxBuilds times in a row.
\* An address is a pair <<name, id>>; a derived address names its seeds.
MaxBuilds == 2
MaxWallets == 2
MaxPools == 2
MaxVotes == 2
MaxStakeAccounts == 2
MaxBuildAmount == 2

JITO_STAKE_POOL_ADDRESS == <<"JitoStakePool", 0>>
STAKE_POOL_PROGRAM_ID == <<"StakePoolProgram", 0>>
STAKE_DEPOSIT_INTERCEPTOR_PROGRAM_ID == <<"InterceptorProgram", 0>>
ProgramId(name) == <<name, 0>>

\* wallet.publicKey
WalletKey(w) == <<"wallet", w>>

\* The fields an operation reads from the decoded stake pool account.
StakePoolData(p) ==
  [ poolMint |-> <<"poolMint", p>>,
    reserveStake |-> <<"reserveStake", p>>,
    managerFeeAccount |-> <<"managerFeeAccount", p>>,
    validatorList |-> <<"validatorList", p>>,
    stakeDepositAuthority |-> <<"stakeDepositAuthority", p>>,
    poolTokenSupply |-> p,
    totalLamports |-> p + 1 ]

\* The vault address stored in the deposit authority account, bytes 9..40.
VaultOf(depositAuthority) == <<"vault", depositAuthority[2]>>

\* PublicKey.findProgramAddressSync(seeds, program): a function of its seeds.
FindProgramAddress(kind, seeds) == <<kind, seeds>>

\* getAssociatedTokenAddressSync(mint, owner)
AssociatedTokenAddress(mint, owner) == <<"ata", <<mint, owner>>>>

\* Keypair.generate() for the keypair `name` of the n-th build. The variant
\* keeps one keypair for all builds.
GenerateOnce(name, n) == <<name, 0>>

Generate(name, n) == <<name, n>>

\* An instruction: its kind, its account keys in order, the positions of
\* the keys flagged isSigner, and its data.
BuiltIx(k, ks, sg, d) == [kind |-> k, keys |-> ks, signer |-> sg, data |-> d]

ComputeBudgetIx == BuiltIx("ComputeBudget", <<>>, {}, <<>>)

CreateAtaIdempotentIx(payer, ata, owner, mint) ==
  BuiltIx("CreateATA", <<payer, ata, owner, mint>>, {1}, <<>>)

\* depositSol: the instructions of the direct SOL deposit.
BuildDepositSol(in, n) ==
  LET wallet == WalletKey(in.wallet)
      pool == StakePoolData(in.pool)
      withdrawAuthority ==
        FindProgramAddress("withdrawAuthority", <<JITO_STAKE_POOL_ADDRESS>>)
      associatedAddress == AssociatedTokenAddress(pool.poolMint, wallet)
      keys == << JITO_STAKE_POOL_ADDRESS, withdrawAuthority, pool.reserveStake,
                 wallet, associatedAddress, pool.managerFeeAccount,
                 associatedAddress, pool.poolMint, ProgramId("System"),
                 ProgramId("Token") >>
  IN << CreateAtaIdempotentIx(wallet, associatedAddress, wallet, pool.poolMint),
        ComputeBudgetIx,
        BuiltIx("DepositSol", keys, {4},
                EncodeInstructionData("DepositSol", in.lamports).data) >>

\* Variant: the authority is handed back to the wallet.
AuthorizeIxToSelf(stake, authorized, newAuthorized, type) ==
  BuiltIx(IF type = "Staker" THEN "AuthorizeStaker" ELSE "AuthorizeWithdrawer",
          <<stake, ProgramId("SysvarClock"), authorized>>, {3}, <<authorized>>)

\* StakeProgram.authorize({stakePubkey, authorizedPubkey, newAuthorizedPubkey,
\* stakeAuthorizationType}).instructions: one instruction, the new authority
\* in its data.
AuthorizeIx(stake, authorized, newAuthorized, type) ==
  BuiltIx(IF type = "Staker" THEN "AuthorizeStaker" ELSE "AuthorizeWithdrawer",
          <<stake, ProgramId("SysvarClock"), authorized>>, {3},
          <<newAuthorized>>)

\* depositStakeAccount: the instructions of the stake account deposit.
BuildStakeDeposit(in, n) ==
  LET wallet == WalletKey(in.wallet)
      stakeAccountAddress == <<"stake", in.stake>>
      validatorVoteAccount == <<"vote", in.vote>>
      pool == StakePoolData(in.pool)
      withdrawAuthority ==
        FindProgramAddress("withdrawAuthority", <<JITO_STAKE_POOL_ADDRESS>>)
      validatorStake ==
        FindProgramAddress("validatorStake",
                           <<validatorVoteAccount, JITO_STAKE_POOL_ADDRESS>>)
      associatedAddress == AssociatedTokenAddress(pool.poolMint, wallet)
      depositStakeAuthority == pool.stakeDepositAuthority
      vault == VaultOf(depositStakeAuthority)
      base == Generate("base", n)
      depositReceiptAddress ==
        FindProgramAddress("deposit_receipt", <<JITO_STAKE_POOL_ADDRESS, base>>)
      depositStakeKeys ==
        << wallet, STAKE_POOL_PROGRAM_ID, depositReceiptAddress,
           JITO_STAKE_POOL_ADDRESS, pool.validatorList, depositStakeAuthority,
           base, withdrawAuthority, stakeAccountAddress, validatorStake,
           pool.reserveStake, vault, pool.managerFeeAccount, associatedAddress,
           pool.poolMint, ProgramId("SysvarClock"),
           ProgramId("SysvarStakeHistory"), ProgramId("Token"),
           ProgramId("Stake"), ProgramId("System") >>
  IN << ComputeBudgetIx,
        CreateAtaIdempotentIx(wallet, associatedAddress, wallet, pool.poolMint),
        AuthorizeIx(stakeAccountAddress, wallet, depositStakeAuthority, "Staker"),
        AuthorizeIx(stakeAccountAddress, wallet, depositStakeAuthority,
                    "Withdrawer"),
        BuiltIx("DepositStake", depositStakeKeys, {1, 7}, <<2, wallet>>) >>

\* Variant: the account is created at the address of the payer.
CreateAccountIxAtPayer(from, new, lam) ==
  BuiltIx("CreateAccount", <<from, from>>, {1, 2}, <<lam>>)

\* SystemProgram.createAccount({fromPubkey, newAccountPubkey, lamports, ...}):
\* both the payer and the new account sign.
CreateAccountIx(from, new, lam) ==
  BuiltIx("CreateAccount", <<from, new>>, {1, 2}, <<lam>>)

\* createStakeAccount: a new stake account, funded and delegated. The rent,
\* the same in every build, is left out of the sum.
BuildCreateStakeAccount(in, n) ==
  LET wallet == WalletKey(in.wallet)
      stakeAccount == Generate("stakeAccount", n)
      validatorVoteAccount == <<"vote", in.vote>>
  IN << ComputeBudgetIx,
        CreateAccountIx(wallet, stakeAccount, in.lamports),
        BuiltIx("StakeInitialize", <<stakeAccount>>, {}, <<wallet, wallet>>),
        BuiltIx("Delegate", <<stakeAccount, validatorVoteAccount, wallet>>, {3},
                <<>>) >>

\* Variant: an approval of the largest amount.
ApproveIxUnlimited(account, delegate, owner, amt) ==
  BuiltIx("Approve", <<account, delegate, owner>>, {3},
          <<4>> \o LittleEndian(U64Modulus - 1, AmountBytes))

\* createApproveInstruction(account, delegate, owner, amount): instruction 4
\* of the token program, the amount as an unsigned 64-bit integer.
ApproveIx(account, delegate, owner, amt) ==
  BuiltIx("Approve", <<account, delegate, owner>>, {3},
          <<4>> \o LittleEndian(amt % U64Modulus, AmountBytes))

\* The WithdrawStake instruction of the stake pool program.
WithdrawStakeIx(pool, withdrawAuthority, source, destination, wallet, transferAuthority, userPoolTokenAccount, amt) ==
  BuiltIx("WithdrawStake",
          << JITO_STAKE_POOL_ADDRESS, pool.validatorList, withdrawAuthority,
             source, destination, wallet, transferAuthority,
             userPoolTokenAccount, pool.managerFeeAccount, pool.poolMint,
             ProgramId("SysvarClock"), ProgramId("Token"), ProgramId("Stake") >>,
          {6, 7},
          EncodeInstructionData("WithdrawStake", amt).data)

\* unstake of the manual and of the ranked unstake: the instructions in the
\* order of the transaction.add calls. The source is the stake account the
\* scan derived, or the one the ranked candidate names. The rent the new
\* account is funded with is a ledger value no instruction key or signer
\* depends on; it is written as 0.
BuildUnstake(in, n) ==
  LET wallet == WalletKey(in.wallet)
      pool == StakePoolData(in.pool)
      userPoolTokenAccount == AssociatedTokenAddress(pool.poolMint, wallet)
      withdrawAuthority ==
        FindProgramAddress("withdrawAuthority", <<JITO_STAKE_POOL_ADDRESS>>)
      transferAuthority == Generate("transferAuthority", n)
      source ==
        IF in.op = "manualUnstake"
          THEN FindProgramAddress("validatorStake",
                                  <<<<"vote", in.vote>>, JITO_STAKE_POOL_ADDRESS>>)
          ELSE <<"stake_account", in.vote>>
      tempStakeAccount == Generate("tempStakeAccount", n)
  IN << ComputeBudgetIx,
        ApproveIx(userPoolTokenAccount, transferAuthority, wallet, in.lamports),
        CreateAccountIx(wallet, tempStakeAccount, 0),
        WithdrawStakeIx(pool, withdrawAuthority, source, tempStakeAccount,
                        wallet, transferAuthority, userPoolTokenAccount,
                        in.lamports) >>

\* What solanaStakePool.depositSol returns: instructions that the wallet and
\* the returned signer sign.
LibraryDepositIxs(wallet, depositSigner) ==
  << BuiltIx("Library", <<wallet, depositSigner>>, {1, 2}, <<>>) >>

\* createStakeAccount of the active stake account: deposit, then withdraw
\* the pool tokens received as stake.
BuildCreateActive(in, n) ==
  LET wallet == WalletKey(in.wallet)
      pool == StakePoolData(in.pool)
      poolTokensToReceive ==
        (in.lamports * pool.poolTokenSupply) \div pool.totalLamports
      depositSigner == Generate("depositSigner", n)
      userPoolTokenAccount == AssociatedTokenAddress(pool.poolMint, wallet)
      withdrawAuthority ==
        FindProgramAddress("withdrawAuthority", <<JITO_STAKE_POOL_ADDRESS>>)
      validatorStakeAddress ==
        FindProgramAddress("validatorStake",
                           <<<<"vote", in.vote>>, JITO_STAKE_POOL_ADDRESS>>)
      stakeReceiver == Generate("stakeReceiver", n)
      transferAuthority == Generate("transferAuthority", n)
  IN << ComputeBudgetIx >> \o LibraryDepositIxs(wallet, depositSigner) \o
     << ApproveIx(userPoolTokenAccount, transferAuthority, wallet,
                  poolTokensToReceive),
        CreateAccountIx(wallet, stakeReceiver, 0),
        WithdrawStakeIx(pool, withdrawAuthority, validatorStakeAddress,
                        stakeReceiver, wallet, transferAuthority,
                        userPoolTokenAccount, poolTokensToReceive) >>

BuildOps ==
  { "depositSol", "manualStakeDeposit", "createStakeAccount", "manualUnstake",
    "preferredUnstake", "createActiveStakeAccount" }

BuildOf(in, n) ==
  CASE in.op = "depositSol" -> BuildDepositSol(in, n)
    [] in.op = "manualStakeDeposit" -> BuildStakeDeposit(in, n)
    [] in.op = "createStakeAccount" -> BuildCreateStakeAccount(in, n)
    [] in.op \in {"manualUnstake", "preferredUnstake"} -> BuildUnstake(in, n)
    [] in.op = "createActiveStakeAccount" -> BuildCreateActive(in, n)

\* Variant: nothing but the wallet signs.
BuildSignersNone(in, n) == << >>

\* The keypairs the operation hands to transaction.sign / partialSign for
\* its n-th build, in the order of the call.
BuildSigners(in, n) ==
  CASE in.op = "depositSol" -> << >>
    [] in.op = "manualStakeDeposit" -> << Generate("base", n) >>
    [] in.op = "createStakeAccount" -> << Generate("stakeAccount", n) >>
    [] in.op \in {"manualUnstake", "preferredUnstake"} ->
         << Generate("transferAuthority", n), Generate("tempStakeAccount", n) >>
    [] in.op = "createActiveStakeAccount" ->
         << Generate("stakeReceiver", n), Generate("transferAuthority", n),
            Generate("depositSigner", n) >>

BuildInputs ==
  [ op : BuildOps, wallet : 1..MaxWallets, lamports : 0..MaxBuildAmount,
    stake : 1..MaxStakeAccounts, vote : 1..MaxVotes, pool : 1..MaxPools ]

BuildInit ==
  /\ HookInit
  /\ network = "mainnet"
  /\ op = "depositSol"
  /\ arg \in BuildInputs
  /\ out = <<>>
  /\ calls = <<>>
  /\ ledger = [slot |-> 0]

\* The operation is invoked once more with the same inputs: it assembles its
\* instructions, binds the blockhash it fetched and the fee payer, and has
\* its keypairs sign.
Build ==
  /\ Len(out) < MaxBuilds
  /\ \E hash \in 1..MaxBlockhash :
       /\ out' = Append(out, BuildOf(arg, Len(out) + 1))
       /\ recentBlockhash' = hash
       /\ feePayer' = "wallet"
       /\ signers' = BuildSigners(arg, Len(out) + 1)
       /\ signatures' = SignAll(BuildSigners(arg, Len(out) + 1), hash, "wallet")
  /\ UNCHANGED <<restVars, hookVars, arg, concVars>>

BuildNext == Build

SpecBuild == BuildInit /\ [][BuildNext]_vars

\* ------------------------------------------------ overlapping invocations
\* Several invocations of the unstake operations run at once, interleaved
\* at their awaits. What a remote read returns is a snapshot, tagged with
\* the invocation that made the call, the number of the call within that
\* invocation and the slot of the ledger at that moment. The variables an invocation declares
\* (stakePoolAccount, validatorListData, preferredValidators, blockhash)
\* are its own; `uses` records the snapshots it reads when it assembles,
\* signs and confirms.
MaxInvocations == 2
MaxSlot == 1

ConcurrentOps == {"manualUnstake", "preferredUnstake"}

NoSnapshot == [by |-> 0, call |-> 0, slot |-> 0]
Snapshot(i, n, l) == [by |-> i, call |-> n, slot |-> l.slot]

NoUses ==
  [pool |-> NoSnapshot, source |-> NoSnapshot, signed |-> NoSnapshot,
   confirm |-> NoSnapshot]

IdleCall ==
  [pc |-> "idle", started |-> 0, stakePoolAccount |-> NoSnapshot,
   validatorListData |-> NoSnapshot, preferredValidators |-> NoSnapshot,
   blockhash |-> NoSnapshot, uses |-> NoUses]

\* An invocation that has returned: its variables are gone. Of one that
\* ran to its end, the slot it started in (s) and what it read (u) are kept.
Returned(s, u) == [IdleCall EXCEPT !.pc = "done", !.started = s, !.uses = u]

\* The list an operation selects the validator from.
SourceField(o) ==
  IF o = "manualUnstake" THEN "validatorListData" ELSE "preferredValidators"

\* The value of the variable `field` as invocation i reads it. The variant
\* keeps the variable in the hook, where the last invocation to assign it
\* wins.
ReadShared(i, c, field) ==
  LET js == {j \in DOMAIN c : c[j][field] # NoSnapshot}
      later(j, k) == \/ c[j][field].slot > c[k][field].slot
                     \/ c[j][field].slot = c[k][field].slot /\ j >= k
  IN IF js = {} THEN c[i][field]
     ELSE c[CHOOSE j \in js : \A k \in js : later(j, k)][field]

Read(i, c, field) == c[i][field]

ConcurrentInit ==
  /\ HookInit
  /\ network = "mainnet"
  /\ op \in ConcurrentOps
  /\ arg = <<>>
  /\ out = <<>>
  /\ calls = [i \in 1..MaxInvocations |-> IdleCall]
  /\ ledger = [slot |-> 0]

\* The signature of the transaction invocation i submits. Every transaction
\* carries keys generated by its own invocation, so no two are alike.
TxSignatureOf(i) == "sig" \o ToString(i)

\* An invocation returns, with its record left as r: the finally block runs
\* setIsLoading(false).
Finally(i, r) ==
  /\ calls' = [calls EXCEPT ![i] = r]
  /\ isLoading' = FALSE

\* unstake(amount) is called: setIsLoading(true), setTxSignature(null).
\* The invocations are numbered in the order in which they start.
CallStart(i) ==
  /\ calls[i].pc = "idle"
  /\ \A j \in 1..(i - 1) : calls[j].pc # "idle"
  /\ calls' = [calls EXCEPT ![i].pc = "pool", ![i].started = ledger.slot]
  /\ isLoading' = TRUE
  /\ txSignature' = "null"
  /\ UNCHANGED <<restVars, sigVars, arg, out, ledger>>

\* await getStakePoolAccount(connection, JITO_STAKE_POOL_ADDRESS)
CallFetchPool(i) ==
  /\ calls[i].pc = "pool"
  /\ \E ok \in BOOLEAN :
       IF ok
         THEN /\ calls' = [calls EXCEPT ![i].stakePoolAccount = Snapshot(i, 1, ledger),
                                        ![i].pc = "token"]
              /\ UNCHANGED isLoading
         ELSE Finally(i, Returned(0, NoUses))
  /\ UNCHANGED <<restVars, sigVars, txSignature, arg, out, ledger>>

\* await getAccount(connection, userPoolTokenAccount).catch(() => null) and
\* the balance test.
CallFetchTokenAccount(i) ==
  /\ calls[i].pc = "token"
  /\ \E ok \in BOOLEAN :
       IF ok
         THEN /\ calls' = [calls EXCEPT ![i].pc = "source"]
              /\ UNCHANGED isLoading
         ELSE Finally(i, Returned(0, NoUses))
  /\ UNCHANGED <<restVars, sigVars, txSignature, arg, out, ledger>>

\* await connection.getAccountInfo(validatorList) and its decoding, or the
\* fetch of the ranked candidates.
CallFetchSource(i) ==
  /\ calls[i].pc = "source"
  /\ \E ok \in BOOLEAN :
       IF ok
         THEN /\ calls' = [calls EXCEPT ![i][SourceField(op)] = Snapshot(i, 2, ledger),
                                        ![i].pc = "rent"]
              /\ UNCHANGED isLoading
         ELSE Finally(i, Returned(0, NoUses))
  /\ UNCHANGED <<restVars, sigVars, txSignature, arg, out, ledger>>

\* The selection, the rent query and the assembly of the WithdrawStake
\* instruction from the pool record and the selected entry.
CallBuild(i) ==
  /\ calls[i].pc = "rent"
  /\ \E ok \in BOOLEAN :
       IF ok
         THEN /\ calls' = [calls EXCEPT
                     ![i].uses.pool = Read(i, calls, "stakePoolAccount"),
                     ![i].uses.source = Read(i, calls, SourceField(op)),
                     ![i].pc = "blockhash"]
              /\ UNCHANGED isLoading
         ELSE Finally(i, Returned(0, NoUses))
  /\ UNCHANGED <<restVars, sigVars, txSignature, arg, out, ledger>>

\* await connection.getLatestBlockhash('finalized')
CallFetchBlockhash(i) ==
  /\ calls[i].pc = "blockhash"
  /\ \E ok \in BOOLEAN :
       IF ok
         THEN /\ calls' = [calls EXCEPT ![i].blockhash = Snapshot(i, 3, ledger),
                                        ![i].pc = "sign"]
              /\ UNCHANGED isLoading
         ELSE Finally(i, Returned(0, NoUses))
  /\ UNCHANGED <<restVars, sigVars, txSignature, arg, out, ledger>>

\* transaction.recentBlockhash = blockhash, the signatures of the generated
\* keys, and await wallet.signTransaction(transaction).
CallSign(i) ==
  /\ calls[i].pc = "sign"
  /\ \E ok \in BOOLEAN :
       IF ok
         THEN /\ calls' = [calls EXCEPT ![i].uses.signed = Read(i, calls, "blockhash"),
                                        ![i].pc = "send"]
              /\ UNCHANGED isLoading
         ELSE Finally(i, Returned(0, NoUses))
  /\ UNCHANGED <<restVars, sigVars, txSignature, arg, out, ledger>>

\* await connection.sendRawTransaction(signedTransaction.serialize()) and
\* setTxSignature(signature)
CallSend(i) ==
  /\ calls[i].pc = "send"
  /\ \E ok \in BOOLEAN :
       IF ok
         THEN /\ calls' = [calls EXCEPT ![i].pc = "confirm"]
              /\ txSignature' = TxSignatureOf(i)
              /\ UNCHANGED isLoading
         ELSE /\ Finally(i, Returned(0, NoUses))
              /\ UNCHANGED txSignature
  /\ UNCHANGED <<restVars, sigVars, arg, out, ledger>>

\* await connection.confirmTransaction({signature, blockhash,
\* lastValidBlockHeight}, 'confirmed'), whatever its outcome
CallConfirm(i) ==
  /\ calls[i].pc = "confirm"
  /\ Finally(i, Returned(calls[i].started,
                         [calls[i].uses EXCEPT
                            !.confirm = Read(i, calls, "blockhash")]))
  /\ UNCHANGED <<restVars, sigVars, txSignature, arg, out, ledger>>

\* The ledger moves on to the next slot.
LedgerAdvance ==
  /\ ledger.slot < MaxSlot
  /\ ledger' = [ledger EXCEPT !.slot = @ + 1]
  /\ UNCHANGED <<hookState, arg, out, calls>>

ConcurrentNext ==
  \/ \E i \in DOMAIN calls :
       \/ CallStart(i)
       \/ CallFetchPool(i)
       \/ CallFetchTokenAccount(i)
       \/ CallFetchSource(i)
       \/ CallBuild(i)
       \/ CallFetchBlockhash(i)
       \/ CallSign(i)
       \/ CallSend(i)
       \/ CallConfirm(i)
  \/ LedgerAdvance

SpecConcurrent == ConcurrentInit /\ [][ConcurrentNext]_vars

\* ---------------------------------------------------------------- claims
InFlight == pc # "done"
Assembled == pc \in {"blockhash", "sign", "send", "confirm"}
SuccessResults == {"true", "pubkey"}

\* The reserve of a network, as the specification of the selector has it.
NetworkReserve(net) ==
  IF net = "testnet" THEN minimumRequiredLamports_Testnet
                     ELSE minimumRequiredLamports_Mainnet

\* Entry i is an eligible source for the amount in flight on this network.
Qualifies(i) ==
  /\ validators[i].status = 0
  /\ chain[i].exists
  /\ chain[i].owner = "stake"
  /\ chain[i].lamports - NetworkReserve(network) > 2 * lamports

\* C1: an operation reports success only if its transaction was submitted
\* and then confirmed without an execution error; a confirmation result
\* that carries an on-chain error is reported as failure.
C1_SuccessOnlyIfConfirmed ==
  (pc = "done" /\ result \in SuccessResults) =>
    (sendOk /\ confirmOutcome = "ok")

\* C2: the source selected by a local scan is the first entry in list order
\* that is Active, whose stake account exists and is owned by the stake
\* program, and whose lamports above the reserve exceed twice the request.
C2_FirstFit ==
  (op \in ScanOps /\ InFlight /\ selected # 0) =>
    /\ Qualifies(selected)
    /\ \A j \in 1..(selected - 1) : ~Qualifies(j)

\* C3: a local scan never selects a validator whose status is not Active,
\* whatever its balance.
C3_OnlyActiveSelected ==
  (op \in ScanOps /\ selected # 0) => validators[selected].status = 0

\* C3 witness: a scan selected an entry after passing over an earlier entry
\* that is not Active although its funded stake account would have been
\* accepted.
C3_Witness ==
  /\ op \in ScanOps
  /\ selected > 1
  /\ \E j \in 1..(selected - 1) :
       /\ validators[j].status # 0
       /\ Accepts(op, chain[j], minReserve, lamports)

\* C4: the stake account selected by a local scan exists and is owned by
\* the stake program.
C4_SelectedIsStakeOwned ==
  (op \in ScanOps /\ selected # 0) =>
    (chain[selected].exists /\ chain[selected].owner = "stake")

\* C5: the minimum-reserve constant a local scan subtracts is the one of
\* the currently selected network.
C5_ReserveOfNetwork ==
  (op \in ScanOps /\ pc \in {"scan", "rent"}) =>
    minReserve = NetworkReserve(network)

\* C6: a local scan that exhausts the validator list without accepting a
\* candidate ends the operation in failure with the no-eligible-validator
\* error, and neither the wallet signing call nor the submission happens.
C6_ExhaustedScanFails ==
  (op \in ScanOps /\ scanIdx > Len(validators)) =>
    /\ pc = "done"
    /\ result = FailResult(op)
    /\ thrown = "NoEligibleValidator"
    /\ signCalls = 0
    /\ sendCalls = 0

\* C6 witness: a scan ran past the end of a list that had an Active entry
\* whose account it read and turned down.
C6_Witness ==
  /\ op \in ScanOps
  /\ scanIdx > Len(validators)
  /\ \E j \in 1..Len(validators) :
       validators[j].status = 0 /\ chain[j].exists
  /\ thrown = "NoEligibleValidator"

\* C7: the candidate selected from the ranked list is the one of lowest
\* rank among those with withdrawable_lamports >= requested, in any array
\* order; when none qualifies the operation fails with an error that names
\* the maximum withdrawable_lamports.
C7_BestRankSelected ==
  (op = "preferredUnstake" /\ candidates # <<>>) =>
    LET ok == {j \in 1..Len(candidates) : candidates[j].withdrawable >= lamports}
    IN IF ok # {}
         THEN /\ selectedCand \in ok
              /\ \A j \in ok : candidates[selectedCand].rank <= candidates[j].rank
         ELSE /\ thrown = "NoEligibleValidator"
              /\ \A j \in 1..Len(candidates) : candidates[j].withdrawable <= errDetail
              /\ \E j \in 1..Len(candidates) : candidates[j].withdrawable = errDetail

\* C8: without a configured ranked-validator endpoint the ranked unstake
\* does not fail for that reason.
C8_NoFailureWithoutEndpoint ==
  (op = "preferredUnstake" /\ ~apiUrl) => thrown # "ApiNotConfigured"

\* C9: in every assembled transaction the compute-budget instruction is the
\* first instruction and the others keep the order they were produced in.
C9_ComputeBudgetFirst ==
  Assembled =>
    /\ tx[1].kind = "ComputeBudget"
    /\ \A i, j \in 2..Len(tx) : i < j => tx[i].prod <= tx[j].prod

\* C10: within one invocation, once the submission call has been made the
\* operation neither signs nor submits again.
C10_SubmitAtMostOnce ==
  [][(sendCalls >= 1 /\ InFlight) =>
       (sendCalls' = sendCalls /\ signCalls' = signCalls)]_vars

\* C10 witness: an operation has ended after its one submission, or the
\* confirmation of it, failed.
C10_Witness ==
  /\ pc = "done"
  /\ sendCalls = 1
  /\ thrown \in {"SendFailed", "ConfirmFailed"}

\* The wallet has put its signature on the transaction.
WalletSigned ==
  \E i \in 1..Len(signatures) : signatures[i].by = Key("wallet")

\* C11: within one invocation the wallet signing call is made at most once,
\* exactly once before any submission, and a submission only follows a
\* signature the wallet gave; when the wallet rejects, the operation ends
\* in failure with nothing submitted.
C11_WalletSignsOnce ==
  /\ signCalls <= 1
  /\ sendCalls >= 1 => (signCalls = 1 /\ WalletSigned)
  /\ (signCalls = 1 /\ ~WalletSigned) =>
       /\ pc = "done"
       /\ result = FailResult(op)
       /\ thrown = "UserRejected"
       /\ sendCalls = 0

\* C11 witness: the wallet was asked once and rejected.
C11_Witness ==
  /\ signCalls = 1
  /\ ~WalletSigned
  /\ pc = "done"

\* C12: when the wallet signing call is made, every key other than the
\* wallet that the transaction marks as signer has already signed, every
\* signature is over the transaction with its recent blockhash and its fee
\* payer set, and the signature of the wallet is the last one.
C12_EphemeralSignersFirst ==
  (pc = "sign" \/ signCalls >= 1) =>
    /\ \A k \in RequiredSigners(tx) :
         \E i \in 1..Len(signatures) : signatures[i].by = k
    /\ \A i \in 1..Len(signatures) :
         /\ recentBlockhash # 0
         /\ signatures[i].hash = recentBlockhash
         /\ signatures[i].payer = "wallet"
         /\ signatures[i].by = Key("wallet") => i = Len(signatures)

\* C12 witness: the wallet signed a transaction that three other keys had
\* to sign, one of them returned by a library builder.
C12_Witness ==
  /\ WalletSigned
  /\ Cardinality(RequiredSigners(tx)) >= 3
  /\ LibKey(1) \in RequiredSigners(tx)
  /\ Len(signatures) = Cardinality(RequiredSigners(tx)) + 1

\* The errors that end an operation before or at its submission.
FailureKinds ==
  { "UserRejected", "SendFailed", "RemoteUnavailable", "NoEligibleValidator",
    "InsufficientBalance" }

\* C13: when the confirmation wait after a submission times out, what the
\* operation reports (returned value and message) differs from what it
\* reports for a rejection or a failure before confirmation.
C13_TimeoutReportedDistinctly ==
  (pc = "done" /\ sendOk /\ confirmOutcome = "throw") =>
    \A k \in FailureKinds :
      <<result, toast>> # <<FailResult(op), ErrorToast(op, k)>>

\* C14: an account read that fails inside the local scan aborts the whole
\* operation with failure; the scan does not go on to later candidates and
\* no candidate is selected after such a failure.
C14_ReadFailureAborts ==
  (op \in ScanOps /\ scanErrs # {}) =>
    /\ pc = "done"
    /\ result = FailResult(op)
    /\ selected = 0
    /\ \A i \in scanErrs : scanIdx <= i

\* C15: in the manual and the ranked unstake, a pool-token balance smaller
\* than the requested lamports ends the operation with the
\* insufficient-balance error before any instruction is built and before any
\* signing or submission, and the error names the balance held and the
\* amount requested.
C15_InsufficientBalanceFirst ==
  (op \in {"manualUnstake", "preferredUnstake"} /\ held >= 0 /\ held < lamports) =>
    /\ pc = "done"
    /\ result = FailResult(op)
    /\ thrown = "InsufficientBalance"
    /\ tx = <<>>
    /\ signCalls = 0
    /\ sendCalls = 0
    /\ errDetail = held
    /\ errAmount = amount

\* C15 witness: an unstake of a positive amount ended on a balance that is
\* positive but too small.
C15_Witness ==
  /\ op \in {"manualUnstake", "preferredUnstake"}
  /\ thrown = "InsufficientBalance"
  /\ held > 0
  /\ held < lamports

\* C19: no computation of a rate from the pool totals ends in a division by
\* zero: a zero divisor is handled explicitly and never raises.
C19_ZeroDivisorHandled == thrown # "DivisionByZero"

\* The unsigned integer that bytes bs spell, least significant first.
RECURSIVE FromLittleEndian(_)
FromLittleEndian(bs) ==
  IF bs = <<>> THEN 0 ELSE Head(bs) + ByteBase * FromLittleEndian(Tail(bs))

\* C17: for every amount in the unsigned 64-bit range the instruction data
\* is 9 bytes, the instruction index (14 for DepositSol, 10 for
\* WithdrawStake) followed by the amount as unsigned little-endian; for an
\* amount outside that range the encoding fails.
C17_UnsignedLittleEndian ==
  out # <<>> =>
    LET r == out[1]
        index == IF arg.ix = "DepositSol" THEN 14 ELSE 10
    IN IF arg.lamports >= 0 /\ arg.lamports < U64Modulus
         THEN /\ r.ok
              /\ Len(r.data) = 9
              /\ r.data[1] = index
              /\ FromLittleEndian(Tail(r.data)) = arg.lamports
         ELSE ~r.ok

\* C18: for account data that reaches past byte 155, the vote address the
\* stake-deposit hooks use is the 32 bytes at offsets 124..155, whatever
\* the other bytes are.
C18_VoteAddressAtOffset ==
  (out # <<>> /\ Len(arg.data) >= 156) =>
    /\ out[1] = arg.placed
    /\ \A i \in 1..32 : out[1][i] = arg.data[124 + i]

\* C18 witness: a vote address that is not constant was read from a
\* 200-byte buffer whose bytes before and behind it differ from its ends.
C18_Witness ==
  /\ out # <<>>
  /\ Len(arg.data) = 200
  /\ out[1][1] # out[1][2]
  /\ arg.data[124] # arg.data[125]
  /\ arg.data[157] # arg.data[156]

\* The keypairs an operation generates for one build.
EphemeralNames ==
  { "base", "stakeAccount", "transferAuthority", "tempStakeAccount",
    "stakeReceiver", "depositSigner" }
DerivedKinds == {"withdrawAuthority", "validatorStake", "deposit_receipt", "ata"}
IsEphemeral(k) == k[1] \in EphemeralNames
IsDerivedFromEphemeral(k) ==
  /\ k[1] \in DerivedKinds
  /\ \E i \in DOMAIN k[2] : IsEphemeral(k[2][i])

EphemeralKeysOf(b) ==
  { b[p[1]].keys[p[2]] :
      p \in { q \in (DOMAIN b) \X (1..20) :
                /\ q[2] \in DOMAIN b[q[1]].keys
                /\ IsEphemeral(b[q[1]].keys[q[2]]) } }

MaskSigner(k) == IF IsEphemeral(k) THEN <<k[1], -1>> ELSE k
MaskSignerAndDerived(k) ==
  IF IsDerivedFromEphemeral(k)
    THEN <<k[1], [i \in DOMAIN k[2] |-> MaskSigner(k[2][i])]>>
    ELSE MaskSigner(k)

\* A build with every generated public key blanked.
ExceptSigners(b) ==
  [i \in DOMAIN b |->
     [b[i] EXCEPT !.keys = [j \in DOMAIN @ |-> MaskSigner(@[j])]]]

\* A build with every generated public key, and every address derived from
\* one, blanked.
ExceptSignersAndDerived(b) ==
  [i \in DOMAIN b |->
     [b[i] EXCEPT !.keys = [j \in DOMAIN @ |-> MaskSignerAndDerived(@[j])]]]

\* C20 as stated: two builds of the same deposit from the same inputs give
\* the same instruction list once the generated signer public keys are set
\* aside, and no generated key of one build appears in the other.
C20_IdenticalExceptSignerKeys ==
  \A i, j \in DOMAIN out :
    i < j =>
      /\ ExceptSigners(out[i]) = ExceptSigners(out[j])
      /\ EphemeralKeysOf(out[i]) \cap EphemeralKeysOf(out[j]) = {}

\* C20: two builds of the same deposit from the same inputs give the same
\* instruction list once the generated signer public keys and the addresses
\* derived from them (the deposit receipt address) are set aside, and no
\* generated key of one build appears in the other.
C20_IdenticalExceptGeneratedKeys ==
  \A i, j \in DOMAIN out :
    i < j =>
      /\ ExceptSignersAndDerived(out[i]) = ExceptSignersAndDerived(out[j])
      /\ EphemeralKeysOf(out[i]) \cap EphemeralKeysOf(out[j]) = {}

\* C20 witness: a stake account deposit was built twice, each time with a
\* generated base key.
C20_Witness ==
  /\ Len(out) >= 2
  /\ arg.op = "manualStakeDeposit"
  /\ EphemeralKeysOf(out[1]) # {}
  /\ EphemeralKeysOf(out[2]) # {}

\* The snapshots an invocation has read so far.
SnapshotsUsed(i) ==
  { calls[i].uses[f] : f \in {"pool", "source", "signed", "confirm"} }
    \ {NoSnapshot}

\* C16: under every interleaving, the pool state, the validator or candidate
\* list and the blockhash an invocation reads come from calls it made itself
\* after it started, and no two invocations sign over a blockhash that came
\* from the same call.
C16_OwnFetchesOnly ==
  \A i \in DOMAIN calls :
    /\ \A s \in SnapshotsUsed(i) : s.by = i /\ s.slot >= calls[i].started
    /\ \A j \in DOMAIN calls \ {i} :
         calls[i].uses.signed # NoSnapshot =>
           calls[i].uses.signed # calls[j].uses.signed

\* C16 witness: two invocations wait for their confirmations at the same
\* time, and each has signed over a blockhash that it read itself in the
\* same slot as the other.
C16_Witness ==
  /\ DOMAIN calls = 1..MaxInvocations
  /\ calls[1].pc = "confirm" /\ calls[2].pc = "confirm"
  /\ calls[1].uses.signed # NoSnapshot
  /\ calls[2].uses.signed # NoSnapshot
  /\ calls[1].uses.signed.slot = calls[2].uses.signed.slot
  /\ calls[1].uses.pool.slot < calls[1].uses.signed.slot

\* Positions of the instructions of kind k in the instruction list b.
IndicesOf(b, k) == {i \in DOMAIN b : b[i].kind = k}

\* C21: every instruction list the manual stake deposit assembles holds
\* exactly one Staker and one Withdrawer authorize instruction, both on the
\* deposited stake account and both naming the deposit authority of the
\* pool, and exactly one interceptor deposit instruction, which comes after
\* both of them.
C21_TwoAuthorizesThenDeposit ==
  \A n \in DOMAIN out :
    arg.op = "manualStakeDeposit" =>
      LET b == out[n]
          authorizes == IndicesOf(b, "AuthorizeStaker")
                          \cup IndicesOf(b, "AuthorizeWithdrawer")
      IN /\ Cardinality(IndicesOf(b, "AuthorizeStaker")) = 1
         /\ Cardinality(IndicesOf(b, "AuthorizeWithdrawer")) = 1
         /\ Cardinality(IndicesOf(b, "DepositStake")) = 1
         /\ \A i \in authorizes :
              /\ b[i].keys[1] = <<"stake", arg.stake>>
              /\ b[i].data[1] = StakePoolData(arg.pool).stakeDepositAuthority
              /\ \A j \in IndicesOf(b, "DepositStake") : i < j

\* C21 witness: a manual stake deposit has been assembled.
C21_Witness ==
  /\ arg.op = "manualStakeDeposit"
  /\ Len(out) >= 1
  /\ IndicesOf(out[1], "DepositStake") # {}

\* The instruction list assembled last, and the keys that have signed it.
LastBuild == out[Len(out)]
SignedBy == {signatures[s].by : s \in DOMAIN signatures}

\* C22: in the manual stake deposit, the key that seeds the deposit receipt
\* address after the label and the pool address is the base key generated
\* in this very invocation, the deposit instruction flags that key as a
\* signer, and its keypair has signed the transaction over the blockhash
\* bound into it.
C22_BaseSeedsAndSigns ==
  (arg.op = "manualStakeDeposit" /\ out # <<>>) =>
    \A i \in IndicesOf(LastBuild, "DepositStake") :
      LET ix == LastBuild[i]
          seedKey == ix.keys[3][2][2]
      IN /\ ix.keys[3][1] = "deposit_receipt"
         /\ seedKey = <<"base", Len(out)>>
         /\ \E p \in ix.signer : ix.keys[p] = seedKey
         /\ \E s \in DOMAIN signatures :
              /\ signatures[s].by = seedKey
              /\ signatures[s].hash = recentBlockhash

\* C22 witness: the second manual stake deposit in a row has been assembled
\* and signed by a generated key.
C22_Witness ==
  /\ arg.op = "manualStakeDeposit"
  /\ Len(out) = 2
  /\ SignedBy # {}
  /\ recentBlockhash > 0

WithdrawOps == {"manualUnstake", "preferredUnstake", "createActiveStakeAccount"}

\* k is the key the n-th invocation generated under one of the names.
GeneratedIn(k, names, n) == k[1] \in names /\ k[2] = n

\* C23: every withdraw-stake transaction holds exactly one create-account
\* instruction, for a destination stake account generated in the same
\* invocation, exactly one approval, to a transfer authority generated in
\* the same invocation, and exactly one WithdrawStake instruction that names
\* both and comes after both.
C23_CreateApproveThenWithdraw ==
  \A n \in DOMAIN out :
    arg.op \in WithdrawOps =>
      LET b == out[n]
          creates == IndicesOf(b, "CreateAccount")
          approvals == IndicesOf(b, "Approve")
          withdraws == IndicesOf(b, "WithdrawStake")
      IN /\ Cardinality(creates) = 1
         /\ Cardinality(approvals) = 1
         /\ Cardinality(withdraws) = 1
         /\ \A c \in creates, a \in approvals, w \in withdraws :
              /\ GeneratedIn(b[c].keys[2], {"tempStakeAccount", "stakeReceiver"}, n)
              /\ GeneratedIn(b[a].keys[2], {"transferAuthority"}, n)
              /\ b[w].keys[5] = b[c].keys[2]
              /\ b[w].keys[7] = b[a].keys[2]
              /\ c < w
              /\ a < w

\* C23 witness: the second withdraw-stake transaction in a row has been
\* assembled.
C23_Witness ==
  /\ arg.op \in WithdrawOps
  /\ Len(out) = 2
  /\ IndicesOf(out[2], "WithdrawStake") # {}

\* The 8 bytes of the amount in the data of an Approve or WithdrawStake
\* instruction, after the instruction index.
AmountField(ix) == SubSeq(ix.data, 2, 1 + AmountBytes)

\* C28: in every withdraw-stake transaction the amount approved equals the
\* amount of the WithdrawStake instruction, and the delegate of the approval
\* is the key the WithdrawStake instruction flags as its signing transfer
\* authority.
C28_ApprovalMatchesWithdraw ==
  \A n \in DOMAIN out :
    arg.op \in WithdrawOps =>
      \A a \in IndicesOf(out[n], "Approve"),
         w \in IndicesOf(out[n], "WithdrawStake") :
        /\ Len(out[n][w].data) = 1 + AmountBytes
        /\ AmountField(out[n][a]) = AmountField(out[n][w])
        /\ out[n][a].keys[2] = out[n][w].keys[7]
        /\ 7 \in out[n][w].signer

\* C28 witness: a withdraw-stake transaction with an approval of a positive
\* amount has been assembled.
C28_Witness ==
  /\ arg.op \in WithdrawOps
  /\ out # <<>>
  /\ \E a \in IndicesOf(out[1], "Approve") :
       FromLittleEndian(AmountField(out[1][a])) > 0

\* The keys, other than the wallet's, that the instruction list b flags as
\* signers.
FlaggedSigners(b, wallet) ==
  { b[q[1]].keys[q[2]] :
      q \in { r \in (DOMAIN b) \X (1..20) :
                /\ r[2] \in b[r[1]].signer
                /\ b[r[1]].keys[r[2]] # wallet } }

\* C29: in every transaction that is ready for the wallet, each account an
\* instruction flags as a signer is the wallet's key or the key of a keypair
\* that has signed, over the blockhash bound into the transaction.
C29_FlaggedSignersHaveSigned ==
  out # <<>> =>
    \A k \in FlaggedSigners(LastBuild, WalletKey(arg.wallet)) :
      \E s \in DOMAIN signatures :
        /\ signatures[s].by = k
        /\ signatures[s].hash = recentBlockhash

\* C29 witness: a transaction that flags three generated keys as signers is
\* ready for the wallet.
C29_Witness ==
  /\ out # <<>>
  /\ Cardinality(FlaggedSigners(LastBuild, WalletKey(arg.wallet))) = 3
  /\ Len(signatures) = 3

\* C24: a confirmation wait is issued only after the one submission of the
\* invocation has returned a signature, and it is keyed to the blockhash
\* (and the last valid block height fetched with it) that is bound into the
\* transaction.
C24_ConfirmKeyedToBlockhash ==
  confirmOutcome # "none" =>
    /\ sendOk
    /\ sendCalls = 1
    /\ recentBlockhash > 0
    /\ confirmKey = recentBlockhash

\* C25: every invocation that is in flight eventually ends with isLoading
\* cleared, whichever of its external calls fails.
C25_LoadingEventuallyCleared ==
  InFlight ~> (pc = "done" /\ ~isLoading)

\* C27: a call of the operation while no wallet is connected returns at
\* once: no external call is awaited, and isLoading and txSignature keep
\* their values.
C27_NoWalletNoCall ==
  [][ (pc = "done" /\ network' = network /\ ~walletConnected')
        => (pc' = "done" /\ isLoading' = isLoading
                         /\ txSignature' = txSignature) ]_vars

\* C30: a transaction that is handed to the wallet, or submitted, by an
\* operation that takes an amount moves a positive number of lamports.
C30_PositiveAmountOnly ==
  (op \in LamportOps /\ (signCalls > 0 \/ sendCalls > 0)) => lamports > 0

\* The invocations still between their call and their return.
Running == {i \in DOMAIN calls : calls[i].pc \notin {"idle", "done"}}

\* The invocations that have started.
Started == {i \in DOMAIN calls : calls[i].pc # "idle"}

\* C26: while invocations of one operation overlap, isLoading is true in
\* every state in which at least one of them has not returned, and
\* txSignature, when it is not null, is the signature of the transaction of
\* the invocation that started last.
C26_SharedStateFollowsLatest ==
  /\ Running # {} => isLoading
  /\ txSignature # "null" =>
       \E i \in Started :
         /\ \A j \in Started : j <= i
         /\ txSignature = TxSignatureOf(i)
====
